---------------------------- MODULE Spec2Model ----------------------------
(***************************************************************************)
(* clogger (src/src/lib.rs): a console logger behind the `log` facade.     *)
(*                                                                         *)
(* The program state is the static INSTANCE (two atomics, quiet and        *)
(* verbosity), the three statics of the `log` facade that lib.rs drives    *)
(* through set_logger / set_max_level / the logging macros (STATE, LOGGER, *)
(* MAX_LOG_LEVEL_FILTER), and the lines written to standard error by       *)
(* Logger::log.  Every public function is cut into its atomic accesses to  *)
(* shared memory (each a SeqCst load or store, or one facade access), so   *)
(* that concurrent callers interleave exactly as threads can.              *)
(***************************************************************************)
EXTENDS Naturals, Sequences, FiniteSets

\* ------------------------------------------------------------- bounds
NumThreads == 2
MaxVerbosity == 3
LargeVerbosity == 1000
MaxLines == 1

Threads == 1..NumThreads
\* usize arguments of set_verbosity the callers draw from
Verbosities == (0..MaxVerbosity) \cup {LargeVerbosity}
\* the text of record.args(), as the sequence of its segments between line
\* breaks: "disk full", and "disk" and "full" with a line break between
Messages == {<<"disk full">>, <<"disk", "full">>}

\* ------------------------------------------------- the facade's types
\* log::Level, most to least severe
Levels == {"Error", "Warn", "Info", "Debug", "Trace"}
\* log::LevelFilter
LevelFilters == {"Off"} \cup Levels

\* the records the callers log: the one-line message at every level, the
\* two-line message at level Error
Records ==
    {r \in [level : Levels, args : Messages] :
        Len(r.args) = 1 \/ r.level = "Error"}

\* the usize discriminant of a Level / LevelFilter (Off = 0 ... Trace = 5)
LevelRank(l) ==
    CASE l = "Off" -> 0
      [] l = "Error" -> 1
      [] l = "Warn" -> 2
      [] l = "Info" -> 3
      [] l = "Debug" -> 4
      [] l = "Trace" -> 5

NoVal == "-"

VARIABLES
    quiet,      \* INSTANCE.quiet
    verbosity,  \* INSTANCE.verbosity
    logState,   \* log::STATE
    logger,     \* log::LOGGER
    maxLevel,   \* log::MAX_LOG_LEVEL_FILTER
    stderr,     \* the lines Logger::log has written to standard error
    pc,         \* per thread: where it stands in the function it is running
    op,         \* per thread: the public function it is running
    arg,        \* per thread: that function's argument
    lvl,        \* per thread: the LevelFilter update_max_level computed
    rec,        \* per thread: the Record a logging macro built
    okCount,    \* history: how many try_init/init calls returned Ok
    initDone,   \* history: some try_init/init call has returned or panicked
    hist,       \* history, per thread: its set_verbosity call, if that is
                \* the only configuration call the thread has made
    quietDone,  \* history: a set_quiet(true) has returned and no
                \* set_quiet(false), try_init or init was running then or
                \* has begun since
    lastSv,     \* history: the argument of the set_verbosity call that
                \* returned last, while no other configuration call has
                \* begun since (a set_verbosity with that argument apart)
    regAtStart  \* history, per thread: a logger was registered when its
                \* running try_init/init call began

vars == <<quiet, verbosity, logState, logger, maxLevel, stderr, pc, op, arg,
          lvl, rec, okCount, initDone, hist, quietDone, lastSv, regAtStart>>

config == <<quiet, verbosity>>
facade == <<logState, logger, maxLevel>>
locals == <<pc, op, arg, lvl, rec>>
history == <<okCount, initDone, hist, quietDone, lastSv, regAtStart>>

\* ------------------------------------------------------ pure functions
\* quiet(): INSTANCE.quiet.load(SeqCst)
QuietGet == quiet

\* verbosity(): INSTANCE.verbosity.load(SeqCst)
VerbosityGet == verbosity

\* a variant of the match below without the catch-all arm: only 3 gives
\* Trace, a larger verbosity falls back to the default filter
VerbosityFilter_NoSaturation(v) ==
    CASE v = 0 -> "Warn"
      [] v = 1 -> "Info"
      [] v = 2 -> "Debug"
      [] v = 3 -> "Trace"
      [] OTHER -> "Warn"

\* update_max_level's inner match: verbosity -> LevelFilter
VerbosityFilter(v) ==
    CASE v = 0 -> "Warn"
      [] v = 1 -> "Info"
      [] v = 2 -> "Debug"
      [] OTHER -> "Trace"

\* Logger::enabled: true, whatever the metadata and the fields
LoggerEnabled(metadata) == TRUE

\* Logger::log's match: Level -> (name, color)
LevelName(l) ==
    CASE l = "Error" -> "error"
      [] l = "Warn" -> "warn"
      [] l = "Info" -> "info"
      [] l = "Debug" -> "debug"
      [] l = "Trace" -> "trace"

LevelColor(l) ==
    CASE l = "Error" -> "Red"
      [] l = "Warn" -> "Purple"
      [] l = "Info" -> "Yellow"
      [] l = "Debug" -> "Cyan"
      [] l = "Trace" -> "Blue"

\* a piece of written text: an escape code or visible characters
Code(c) == [code |-> TRUE, text |-> c]
Plain(x) == [code |-> FALSE, text |-> x]

\* color.paint(name) as Display writes it: the colour's escape code, the
\* name, the reset code
Paint(color, name) == <<Code(color), Plain(name), Code("Reset")>>

\* eprintln!("{}: {}", color.paint(name), record.args()): the painted name,
\* then ": ", then the message as it is, then a line break. The result is
\* the sequence of lines this puts on the stream: the message's first
\* segment ends the first line and every further segment is a line of its
\* own
Eprintln(l, m) ==
    <<Paint(LevelColor(l), LevelName(l)) \o <<Plain(": "), Plain(m[1])>>>>
        \o [i \in 1..(Len(m) - 1) |-> <<Plain(m[i + 1])>>]

\* the facade's filter in the logging macros: lvl <= log::max_level()
FacadeEnabled(l, filter) == LevelRank(l) <= LevelRank(filter)

\* log::logger(): LOGGER once STATE is INITIALIZED, the no-op logger before
CurrentLogger == IF logState = "INITIALIZED" THEN logger ELSE "nop"

\* ------------------------------------------------------- initial state
\* static INSTANCE: quiet = false, verbosity = 0.  The facade starts with no
\* logger and filter Off, or with a logger some other crate of the process
\* registered earlier, which set the filter to a level of its choice.
Init ==
    /\ quiet = FALSE
    /\ verbosity = 0
    /\ \/ logState = "UNINITIALIZED" /\ logger = "nop" /\ maxLevel = "Off"
       \/ logState = "INITIALIZED" /\ logger = "other"
            /\ maxLevel \in LevelFilters
    /\ stderr = <<>>
    /\ pc = [t \in Threads |-> "idle"]
    /\ op = [t \in Threads |-> "none"]
    /\ arg = [t \in Threads |-> NoVal]
    /\ lvl = [t \in Threads |-> NoVal]
    /\ rec = [t \in Threads |-> NoVal]
    /\ okCount = 0
    /\ initDone = FALSE
    /\ hist = [t \in Threads |-> [kind |-> "none", v |-> 0]]
    /\ quietDone = FALSE
    /\ lastSv = [set |-> FALSE, v |-> 0]
    /\ regAtStart = [t \in Threads |-> FALSE]

\* ------------------------------------------------------------ helpers
\* the thread enters function o with argument a and stands at place p
Enter(t, o, a, p) ==
    /\ pc' = [pc EXCEPT ![t] = p]
    /\ op' = [op EXCEPT ![t] = o]
    /\ arg' = [arg EXCEPT ![t] = a]

\* the thread's call returns to its caller
Return(t) ==
    /\ pc' = [pc EXCEPT ![t] = "idle"]
    /\ op' = [op EXCEPT ![t] = "none"]
    /\ arg' = [arg EXCEPT ![t] = NoVal]
    /\ lvl' = [lvl EXCEPT ![t] = NoVal]
    /\ rec' = [rec EXCEPT ![t] = NoVal]

\* no other thread is inside a call
OthersIdle(t) == \A u \in Threads \ {t} : pc[u] \in {"idle", "panicked"}

\* a set_quiet(false), try_init or init call of another thread is running
UnquietRunning(t) ==
    \E u \in Threads \ {t} :
        \/ op[u] = "set_quiet" /\ arg[u] = FALSE
        \/ op[u] \in {"try_init", "init"}

\* hist after thread t begins a configuration call
HistAfter(t, o, a) ==
    [hist EXCEPT ![t] =
        IF o = "set_verbosity" /\ hist[t].kind = "none"
          THEN [kind |-> "once", v |-> a]
          ELSE [kind |-> "other", v |-> 0]]

\* lastSv after a call begins: only a set_verbosity(a) that follows a
\* returned set_verbosity(a) keeps it
NoSv == [set |-> FALSE, v |-> 0]

SvAfterStart(o, a) ==
    IF o = "set_verbosity" /\ lastSv.set /\ lastSv.v = a THEN lastSv ELSE NoSv

\* variants of set_verbosity: one that stores and returns without calling
\* update_max_level, one that clamps the value it stores to the top of the
\* filter table
SetVerbosity_NoPublish(t, v) ==
    /\ pc[t] = "idle"
    /\ verbosity' = v
    /\ hist' = HistAfter(t, "set_verbosity", v)
    /\ lastSv' = [set |-> TRUE, v |-> v]
    /\ UNCHANGED <<quiet, facade, stderr, locals, okCount, initDone,
                   quietDone, regAtStart>>

SetVerbosity_Clamped(t, v) ==
    /\ pc[t] = "idle"
    /\ verbosity' = IF v > 3 THEN 3 ELSE v
    /\ Enter(t, "set_verbosity", v, "uml_quiet")
    /\ hist' = HistAfter(t, "set_verbosity", v)
    /\ lastSv' = SvAfterStart("set_verbosity", v)
    /\ UNCHANGED <<quiet, facade, stderr, lvl, rec, okCount, initDone,
                   quietDone, regAtStart>>

\* a variant of set_verbosity that raises the stored verbosity by its
\* argument instead of replacing it
SetVerbosity_Additive(t, v) ==
    /\ pc[t] = "idle"
    /\ verbosity' = IF verbosity + v > MaxVerbosity
                      THEN LargeVerbosity ELSE verbosity + v
    /\ Enter(t, "set_verbosity", v, "uml_quiet")
    /\ hist' = HistAfter(t, "set_verbosity", v)
    /\ lastSv' = SvAfterStart("set_verbosity", v)
    /\ UNCHANGED <<quiet, facade, stderr, lvl, rec, okCount, initDone,
                   quietDone, regAtStart>>

\* --------------------------------------------------------- set_verbosity
\* INSTANCE.verbosity.store(verbosity, SeqCst), then on to update_max_level
SetVerbosity(t, v) ==
    /\ pc[t] = "idle"
    /\ verbosity' = v
    /\ Enter(t, "set_verbosity", v, "uml_quiet")
    /\ hist' = HistAfter(t, "set_verbosity", v)
    /\ lastSv' = SvAfterStart("set_verbosity", v)
    /\ UNCHANGED <<quiet, facade, stderr, lvl, rec, okCount, initDone,
                   quietDone, regAtStart>>

\* a variant of set_quiet that can turn quiet mode on but never off
SetQuiet_Sticky(t, b) ==
    /\ pc[t] = "idle"
    /\ quiet' = (quiet \/ b)
    /\ Enter(t, "set_quiet", b, "uml_quiet")
    /\ hist' = HistAfter(t, "set_quiet", b)
    /\ quietDone' = (quietDone /\ b)
    /\ lastSv' = SvAfterStart("set_quiet", b)
    /\ UNCHANGED <<verbosity, facade, stderr, lvl, rec, okCount, initDone,
                   regAtStart>>

\* ------------------------------------------------------------- set_quiet
\* a variant of set_quiet that also puts verbosity back to 0
SetQuiet_ResetsVerbosity(t, b) ==
    /\ pc[t] = "idle"
    /\ quiet' = b
    /\ verbosity' = 0
    /\ Enter(t, "set_quiet", b, "uml_quiet")
    /\ hist' = HistAfter(t, "set_quiet", b)
    /\ quietDone' = (quietDone /\ b)
    /\ lastSv' = SvAfterStart("set_quiet", b)
    /\ UNCHANGED <<facade, stderr, lvl, rec, okCount, initDone, regAtStart>>

\* INSTANCE.quiet.store(enabled, SeqCst), then on to update_max_level
SetQuiet(t, b) ==
    /\ pc[t] = "idle"
    /\ quiet' = b
    /\ Enter(t, "set_quiet", b, "uml_quiet")
    /\ hist' = HistAfter(t, "set_quiet", b)
    /\ quietDone' = (quietDone /\ b)
    /\ lastSv' = SvAfterStart("set_quiet", b)
    /\ UNCHANGED <<verbosity, facade, stderr, lvl, rec, okCount, initDone,
                   regAtStart>>

\* ------------------------------------------------------ try_init / init
\* a variant of try_init that goes to set_logger without update_max_level()
TryInit_NoPublish(t) ==
    /\ pc[t] = "idle"
    /\ Enter(t, "try_init", NoVal, "set_logger")
    /\ hist' = HistAfter(t, "try_init", NoVal)
    /\ quietDone' = FALSE
    /\ lastSv' = SvAfterStart("try_init", NoVal)
    /\ regAtStart' = [regAtStart EXCEPT ![t] = (logState = "INITIALIZED")]
    /\ UNCHANGED <<config, facade, stderr, lvl, rec, okCount, initDone>>

\* try_init begins: its first statement is update_max_level()
TryInit(t) ==
    /\ pc[t] = "idle"
    /\ Enter(t, "try_init", NoVal, "uml_quiet")
    /\ hist' = HistAfter(t, "try_init", NoVal)
    /\ quietDone' = FALSE
    /\ lastSv' = SvAfterStart("try_init", NoVal)
    /\ regAtStart' = [regAtStart EXCEPT ![t] = (logState = "INITIALIZED")]
    /\ UNCHANGED <<config, facade, stderr, lvl, rec, okCount, initDone>>

\* a variant of init that first puts the fields back to their initial values
InitCall_ResetsConfig(t) ==
    /\ pc[t] = "idle"
    /\ quiet' = FALSE
    /\ verbosity' = 0
    /\ Enter(t, "init", NoVal, "uml_quiet")
    /\ hist' = HistAfter(t, "init", NoVal)
    /\ quietDone' = FALSE
    /\ lastSv' = SvAfterStart("init", NoVal)
    /\ regAtStart' = [regAtStart EXCEPT ![t] = (logState = "INITIALIZED")]
    /\ UNCHANGED <<facade, stderr, lvl, rec, okCount, initDone>>

\* init begins: try_init().expect(..)
InitCall(t) ==
    /\ pc[t] = "idle"
    /\ Enter(t, "init", NoVal, "uml_quiet")
    /\ hist' = HistAfter(t, "init", NoVal)
    /\ quietDone' = FALSE
    /\ lastSv' = SvAfterStart("init", NoVal)
    /\ regAtStart' = [regAtStart EXCEPT ![t] = (logState = "INITIALIZED")]
    /\ UNCHANGED <<config, facade, stderr, lvl, rec, okCount, initDone>>

\* a variant of update_max_level's first step that never takes the quiet
\* branch
UmlLoadQuiet_IgnoresQuiet(t) ==
    /\ pc[t] = "uml_quiet"
    /\ lvl' = lvl
    /\ pc' = [pc EXCEPT ![t] = "uml_verbosity"]
    /\ UNCHANGED <<config, facade, stderr, op, arg, rec, history>>

\* ------------------------------------------------------ update_max_level
\* if quiet() { LevelFilter::Off } else { match verbosity() .. }: the load
\* of quiet; when it reads true the filter is decided
UmlLoadQuiet(t) ==
    /\ pc[t] = "uml_quiet"
    /\ IF QuietGet
         THEN /\ lvl' = [lvl EXCEPT ![t] = "Off"]
              /\ pc' = [pc EXCEPT ![t] = "uml_publish"]
         ELSE /\ lvl' = lvl
              /\ pc' = [pc EXCEPT ![t] = "uml_verbosity"]
    /\ UNCHANGED <<config, facade, stderr, op, arg, rec, history>>

\* match verbosity() { 0 => Warn, 1 => Info, 2 => Debug, _ => Trace }: the
\* load of verbosity
UmlLoadVerbosity(t) ==
    /\ pc[t] = "uml_verbosity"
    /\ lvl' = [lvl EXCEPT ![t] = VerbosityFilter(VerbosityGet)]
    /\ pc' = [pc EXCEPT ![t] = "uml_publish"]
    /\ UNCHANGED <<config, facade, stderr, op, arg, rec, history>>

\* a variant of the store that try_init and init skip once a logger is
\* registered
UmlPublish_UnlessRegistered(t) ==
    /\ pc[t] = "uml_publish"
    /\ maxLevel' = IF op[t] \in {"try_init", "init"}
                        /\ logState = "INITIALIZED"
                     THEN maxLevel ELSE lvl[t]
    /\ IF op[t] \in {"try_init", "init"}
         THEN /\ pc' = [pc EXCEPT ![t] = "set_logger"]
              /\ lvl' = [lvl EXCEPT ![t] = NoVal]
              /\ UNCHANGED <<op, arg, rec, quietDone, lastSv>>
         ELSE /\ Return(t)
              /\ quietDone' =
                    IF op[t] = "set_quiet" /\ arg[t] = TRUE
                      THEN ~UnquietRunning(t)
                      ELSE quietDone
              /\ lastSv' =
                    IF op[t] = "set_verbosity" /\ OthersIdle(t)
                      THEN [set |-> TRUE, v |-> arg[t]]
                      ELSE NoSv
    /\ UNCHANGED <<config, logState, logger, stderr, okCount, initDone, hist,
                   regAtStart>>

\* set_max_level(..): the store to MAX_LOG_LEVEL_FILTER.  A setter returns
\* after it; try_init goes on to set_logger(&INSTANCE)
UmlPublish(t) ==
    /\ pc[t] = "uml_publish"
    /\ maxLevel' = lvl[t]
    /\ IF op[t] \in {"try_init", "init"}
         THEN /\ pc' = [pc EXCEPT ![t] = "set_logger"]
              /\ lvl' = [lvl EXCEPT ![t] = NoVal]
              /\ UNCHANGED <<op, arg, rec, quietDone, lastSv>>
         ELSE /\ Return(t)
              /\ quietDone' =
                    IF op[t] = "set_quiet" /\ arg[t] = TRUE
                      THEN ~UnquietRunning(t)
                      ELSE quietDone
              /\ lastSv' =
                    IF op[t] = "set_verbosity" /\ OthersIdle(t)
                      THEN [set |-> TRUE, v |-> arg[t]]
                      ELSE NoSv
    /\ UNCHANGED <<config, logState, logger, stderr, okCount, initDone, hist,
                   regAtStart>>

\* variants of set_logger's first step: one that installs whatever STATE
\* holds, one whose test and set of STATE are not one atomic step, so that
\* a caller arriving while another installs goes on to install too
SetLoggerCas_Overwrite(t) ==
    /\ pc[t] = "set_logger"
    /\ logState' = "INITIALIZING"
    /\ pc' = [pc EXCEPT ![t] = "install"]
    /\ UNCHANGED <<config, logger, maxLevel, stderr, op, arg, lvl, rec,
                   history>>

SetLoggerCas_Racy(t) ==
    /\ pc[t] = "set_logger"
    /\ IF logState \in {"UNINITIALIZED", "INITIALIZING"}
         THEN /\ logState' = "INITIALIZING"
              /\ pc' = [pc EXCEPT ![t] = "install"]
         ELSE /\ logState' = logState
              /\ pc' = [pc EXCEPT ![t] = "ret_err"]
    /\ UNCHANGED <<config, logger, maxLevel, stderr, op, arg, lvl, rec,
                   history>>

\* ------------------------------------------------------------ set_logger
\* STATE.compare_exchange(UNINITIALIZED, INITIALIZING): the winner goes on to
\* install, a caller that finds INITIALIZING waits, any other gets Err
SetLoggerCas(t) ==
    /\ pc[t] = "set_logger"
    /\ CASE logState = "UNINITIALIZED" ->
              /\ logState' = "INITIALIZING"
              /\ pc' = [pc EXCEPT ![t] = "install"]
         [] logState = "INITIALIZING" ->
              /\ logState' = logState
              /\ pc' = [pc EXCEPT ![t] = "spin"]
         [] OTHER ->
              /\ logState' = logState
              /\ pc' = [pc EXCEPT ![t] = "ret_err"]
    /\ UNCHANGED <<config, logger, maxLevel, stderr, op, arg, lvl, rec,
                   history>>

\* LOGGER = &INSTANCE; STATE.store(INITIALIZED); Ok(())
SetLoggerInstall(t) ==
    /\ pc[t] = "install"
    /\ logger' = "clogger"
    /\ logState' = "INITIALIZED"
    /\ pc' = [pc EXCEPT ![t] = "ret_ok"]
    /\ UNCHANGED <<config, maxLevel, stderr, op, arg, lvl, rec, history>>

\* while STATE.load() == INITIALIZING { spin }; Err(SetLoggerError)
SetLoggerSpin(t) ==
    /\ pc[t] = "spin"
    /\ logState # "INITIALIZING"
    /\ pc' = [pc EXCEPT ![t] = "ret_err"]
    /\ UNCHANGED <<config, facade, stderr, op, arg, lvl, rec, history>>

\* a variant of the return in which init ignores set_logger's Err
InitReturn_Swallow(t) ==
    /\ pc[t] \in {"ret_ok", "ret_err"}
    /\ Return(t)
    /\ okCount' = IF pc[t] = "ret_ok" /\ okCount < 2
                    THEN okCount + 1 ELSE okCount
    /\ initDone' = TRUE
    /\ regAtStart' = [regAtStart EXCEPT ![t] = FALSE]
    /\ UNCHANGED <<config, facade, stderr, hist, quietDone, lastSv>>

\* try_init returns set_logger's Result to its caller; init unwraps it with
\* expect("logger failed to initialize"): Ok returns, Err panics
InitReturn(t) ==
    /\ pc[t] \in {"ret_ok", "ret_err"}
    /\ IF op[t] = "init" /\ pc[t] = "ret_err"
         THEN /\ pc' = [pc EXCEPT ![t] = "panicked"]
              /\ UNCHANGED <<op, arg, lvl, rec>>
         ELSE Return(t)
    /\ okCount' = IF pc[t] = "ret_ok" /\ okCount < 2
                    THEN okCount + 1 ELSE okCount
    /\ initDone' = TRUE
    /\ regAtStart' = [regAtStart EXCEPT ![t] = FALSE]
    /\ UNCHANGED <<config, facade, stderr, hist, quietDone, lastSv>>

\* ------------------------------------------------------- logging macros
\* error!/warn!/info!/debug!/trace!: the facade compares the level with
\* max_level(); a record within it is handed on to the logger, any other is
\* dropped
LogCheck(t, r) ==
    /\ pc[t] = "idle"
    /\ Len(stderr) < MaxLines
    /\ Enter(t, "log", NoVal,
             IF FacadeEnabled(r.level, maxLevel) THEN "dispatch" ELSE "dropped")
    /\ rec' = [rec EXCEPT ![t] = r]
    /\ UNCHANGED <<config, facade, stderr, lvl, history>>

\* a variant of Logger::log that writes nothing while quiet is set
LogDispatch_ChecksQuiet(t) ==
    /\ pc[t] = "dispatch"
    /\ stderr' = IF CurrentLogger = "clogger" /\ ~QuietGet
                   THEN stderr \o Eprintln(rec[t].level, rec[t].args)
                   ELSE stderr
    /\ Return(t)
    /\ UNCHANGED <<config, facade, history>>

\* log::logger().log(&record): Logger::log writes the line when INSTANCE is
\* the registered logger; the no-op logger and another crate's logger write
\* nothing to this stream
LogDispatch(t) ==
    /\ pc[t] = "dispatch"
    /\ stderr' = IF CurrentLogger = "clogger"
                   THEN stderr \o Eprintln(rec[t].level, rec[t].args)
                   ELSE stderr
    /\ Return(t)
    /\ UNCHANGED <<config, facade, history>>

\* the macro returns without a record having been handed on
LogDropped(t) ==
    /\ pc[t] = "dropped"
    /\ Return(t)
    /\ UNCHANGED <<config, facade, stderr, history>>

\* ------------------------------------------------------- specifications
\* one step of thread t, other than waiting in set_logger
Step(t) ==
    \/ \E v \in Verbosities : SetVerbosity(t, v)
    \/ \E b \in BOOLEAN : SetQuiet(t, b)
    \/ TryInit(t)
    \/ InitCall(t)
    \/ UmlLoadQuiet(t)
    \/ UmlLoadVerbosity(t)
    \/ UmlPublish(t)
    \/ SetLoggerCas(t)
    \/ SetLoggerInstall(t)
    \/ InitReturn(t)
    \/ \E r \in Records : LogCheck(t, r)
    \/ LogDispatch(t)
    \/ LogDropped(t)

\* any number of threads call the public functions and log, concurrently
Next == \E t \in Threads : Step(t) \/ SetLoggerSpin(t)

Spec == Init /\ [][Next]_vars

\* no thread is inside a call
Quiescent == \A t \in Threads : pc[t] \in {"idle", "panicked"}

\* the calls do not overlap: one caller makes them all, one after another
\* (no caller ever waits in set_logger then)
Main == 1

NextSeq == Step(Main)

SpecSeq == Init /\ [][NextSeq]_vars

\* initialisation under concurrency: try_init and init calls overlap one
\* another freely, while every set_verbosity / set_quiet call runs alone
\* (it begins when no call is running and no call begins while it runs)
SetterRunning == \E u \in Threads : op[u] \in {"set_verbosity", "set_quiet"}

SetVerbosityAlone(t, v) == Quiescent /\ SetVerbosity(t, v)

SetQuietAlone(t, b) == Quiescent /\ SetQuiet(t, b)

TryInitConcurrent(t) == ~SetterRunning /\ TryInit(t)

InitCallConcurrent(t) == ~SetterRunning /\ InitCall(t)

NextInit ==
    \E t \in Threads :
        \/ \E v \in Verbosities : SetVerbosityAlone(t, v)
        \/ \E b \in BOOLEAN : SetQuietAlone(t, b)
        \/ TryInitConcurrent(t)
        \/ InitCallConcurrent(t)
        \/ UmlLoadQuiet(t)
        \/ UmlLoadVerbosity(t)
        \/ UmlPublish(t)
        \/ SetLoggerCas(t)
        \/ SetLoggerInstall(t)
        \/ SetLoggerSpin(t)
        \/ InitReturn(t)

SpecInit == Init /\ [][NextInit]_vars

\* logging under concurrency: thread Main makes the calls that publish a
\* threshold (set_verbosity, set_quiet, try_init, init), one after another,
\* while the other threads log, one logging macro at a time, overlapping
\* Main's calls in every way
ConfigStep(t) ==
    \/ \E v \in Verbosities : SetVerbosity(t, v)
    \/ \E b \in BOOLEAN : SetQuiet(t, b)
    \/ TryInit(t)
    \/ InitCall(t)
    \/ UmlLoadQuiet(t)
    \/ UmlLoadVerbosity(t)
    \/ UmlPublish(t)
    \/ SetLoggerCas(t)
    \/ SetLoggerInstall(t)
    \/ InitReturn(t)

LogRunning == \E u \in Threads : pc[u] \in {"dispatch", "dropped"}

LogCheckExclusive(t, r) == ~LogRunning /\ LogCheck(t, r)

LogStep(t) ==
    \/ \E r \in Records : LogCheckExclusive(t, r)
    \/ LogDispatch(t)
    \/ LogDropped(t)

NextLog == ConfigStep(Main) \/ \E t \in Threads \ {Main} : LogStep(t)

SpecLog == Init /\ [][NextLog]_vars

\* ================================================================ claims
\* the specification's table (spec.md, section 3): the threshold that
\* belongs to a (quiet, verbosity) pair
SpecThreshold(q, v) ==
    IF q THEN "Off"
    ELSE IF v = 0 THEN "Warn"
    ELSE IF v = 1 THEN "Info"
    ELSE IF v = 2 THEN "Debug"
    ELSE "Trace"

\* some configuration call (set_verbosity, set_quiet, try_init, init) has
\* been made
Configured == \E t \in Threads : hist[t].kind # "none"

\* thread t takes the step that stores update_max_level's filter
Publishes(t) == pc[t] = "uml_publish" /\ pc'[t] # "uml_publish"

\* ------------------------------------------------------------------- C1
\* every thread has made exactly one configuration call, a set_verbosity,
\* the values are pairwise distinct, and all the calls have returned
C1_AllSettersReturned ==
    /\ Quiescent
    /\ \A t \in Threads : hist[t].kind = "once"
    /\ \A t, u \in Threads : t # u => hist[t].v # hist[u].v

\* C1: once N threads' concurrent set_verbosity calls with distinct values
\* have all returned, get_verbosity() is one of the written values and the
\* published threshold is the mapping of that same value.
C1_ConcurrentSettersConsistent ==
    C1_AllSettersReturned =>
        /\ \E t \in Threads : VerbosityGet = hist[t].v
        /\ maxLevel = SpecThreshold(FALSE, VerbosityGet)

\* ------------------------------------------------------------------- C2
\* C2: once a set_quiet(true) call has returned and no set_quiet(false) has
\* started since (nor any try_init or init), the published threshold is Off,
\* so that no record logged from then on produces an output line, whatever
\* set_verbosity calls run concurrently.
C2_QuietDiscardsAll == quietDone => maxLevel = "Off"

\* ------------------------------------------------------------------- C3
\* C3: with non-overlapping calls, in every state after a set_quiet,
\* set_verbosity, try_init or init call has returned, the published threshold
\* is the mapping of the current (quiet, verbosity): no completed mutation
\* leaves the facade's threshold stale.
C3_ThresholdNeverStale ==
    (Quiescent /\ Configured) =>
        maxLevel = SpecThreshold(QuietGet, VerbosityGet)

C3_Witness ==
    /\ Quiescent
    /\ hist[Main].kind = "other"
    /\ logger = "clogger"
    /\ QuietGet = FALSE
    /\ VerbosityGet = 2
    /\ maxLevel = "Debug"

\* ------------------------------------------------------------------- C4
\* C4: with quiet = false, the threshold update_max_level publishes is Warn
\* for verbosity 0, Info for 1, Debug for 2 and Trace for every verbosity of
\* 3 or more, however large.
C4_MappingSaturates ==
    [][\A t \in Threads :
          (Publishes(t) /\ ~QuietGet) =>
              /\ VerbosityGet = 0 => maxLevel' = "Warn"
              /\ VerbosityGet = 1 => maxLevel' = "Info"
              /\ VerbosityGet = 2 => maxLevel' = "Debug"
              /\ VerbosityGet >= 3 => maxLevel' = "Trace"]_vars

C4_Witness ==
    /\ Quiescent
    /\ Configured
    /\ QuietGet = FALSE
    /\ VerbosityGet = LargeVerbosity
    /\ maxLevel = "Trace"

\* ------------------------------------------------------------------- C5
\* C5: with quiet = true, the threshold update_max_level computes and
\* publishes is Off, whatever the verbosity.
C5_QuietOverrides ==
    [][\A t \in Threads :
          (Publishes(t) /\ QuietGet) => maxLevel' = "Off"]_vars

C5_Witness ==
    /\ Quiescent
    /\ QuietGet = TRUE
    /\ VerbosityGet = 2
    /\ maxLevel = "Off"
    /\ quietDone

\* ------------------------------------------------------------------- C6
\* thread t takes a step of a try_init call
TryInitStep(t) ==
    /\ pc'[t] # pc[t]
    /\ op[t] = "try_init" \/ op'[t] = "try_init"

\* C6: after a try_init has returned Ok, no try_init or init call returns Ok
\* again (each returns the already-initialized error), and no step of such a
\* failing try_init changes quiet, verbosity or the registered logger.
C6_InitExactlyOnce ==
    /\ [](\A t \in Threads : pc[t] = "ret_ok" => okCount = 0)
    /\ [][\A t \in Threads :
             (okCount >= 1 /\ TryInitStep(t)) =>
                 /\ QuietGet' = QuietGet
                 /\ VerbosityGet' = VerbosityGet
                 /\ logger' = logger
                 /\ logState' = logState]_vars

C6_Witness ==
    /\ okCount = 1
    /\ logger = "clogger"
    /\ QuietGet = TRUE
    /\ VerbosityGet = 2
    /\ \E t \in Threads : op[t] = "try_init" /\ pc[t] = "ret_err"

\* ------------------------------------------------------------------- C7
\* a logger of another crate was registered before any call
PreRegistered == logger = "other"

\* C7: of any number of overlapping try_init / init calls made with no logger
\* registered beforehand, exactly one returns Ok and every other one fails,
\* and the logger, once registered, is never replaced.
C7_OneInitWins ==
    /\ [](okCount <= 1)
    /\ []((Quiescent /\ initDone /\ ~PreRegistered) => okCount = 1)
    /\ [][logState = "INITIALIZED" => logger' = logger]_vars

C7_Witness ==
    \E t, u \in Threads :
        /\ op[t] = "try_init" /\ pc[t] = "ret_ok"
        /\ op[u] = "try_init" /\ pc[u] = "ret_err"
        /\ logger = "clogger"

\* ------------------------------------------------------------------- C8
\* C8: after a successful init and with no call in progress, a record of
\* level L is handed on to Logger::log exactly when L is within the threshold
\* that the mapping assigns to the current (quiet, verbosity); with
\* quiet = false and verbosity = 0, Info is dropped and Error is emitted.
C8_FilteringFollowsConfiguration ==
    [][\A t \in Threads :
          (okCount >= 1 /\ Quiescent /\ pc'[t] \in {"dispatch", "dropped"}) =>
              (pc'[t] = "dispatch" <=>
                  FacadeEnabled(rec'[t].level,
                                SpecThreshold(QuietGet, VerbosityGet)))]_vars

\* ------------------------------------------------------------------- C9
\* C9: when a set_verbosity(n) call returns, with no other setter in between,
\* get_verbosity() returns exactly n, whatever the state before the call and
\* whether or not a logger is registered.
C9_VerbosityRoundTrip ==
    [][\A t \in Threads :
          (op[t] = "set_verbosity" /\ pc'[t] = "idle") =>
              VerbosityGet' = arg[t]]_vars

C9_Witness ==
    /\ Quiescent
    /\ hist[Main] = [kind |-> "once", v |-> LargeVerbosity]
    /\ VerbosityGet = LargeVerbosity
    /\ logState = "UNINITIALIZED"

\* ------------------------------------------------------------------ C10
\* C10: when a set_quiet(b) call returns, with no other setter in between,
\* is_quiet() returns exactly b, whatever the state before the call and
\* whether or not a logger is registered.
C10_QuietRoundTrip ==
    [][\A t \in Threads :
          (op[t] = "set_quiet" /\ pc'[t] = "idle") =>
              QuietGet' = arg[t]]_vars

C10_Witness ==
    /\ Quiescent
    /\ quietDone
    /\ QuietGet = TRUE
    /\ logState = "UNINITIALIZED"

\* ------------------------------------------------------------------ C11
\* thread t takes a step of a set_verbosity(n) call made right after a
\* set_verbosity(n) call returned
RepeatStep(t) ==
    /\ pc'[t] # pc[t]
    /\ lastSv.set
    /\ \/ op[t] = "set_verbosity" /\ arg[t] = lastSv.v
       \/ pc[t] = "idle" /\ op'[t] = "set_verbosity" /\ arg'[t] = lastSv.v

\* C11: a set_verbosity(n) call made right after a set_verbosity(n) call
\* leaves the stored verbosity, the quiet flag and the published threshold
\* as the first call left them: none of its steps changes any of the three.
C11_SetVerbosityIdempotent ==
    [][\A t \in Threads :
          RepeatStep(t) =>
              /\ VerbosityGet' = VerbosityGet
              /\ QuietGet' = QuietGet
              /\ maxLevel' = maxLevel]_vars

C11_Witness ==
    /\ op[Main] = "set_verbosity"
    /\ pc[Main] = "uml_publish"
    /\ lastSv = [set |-> TRUE, v |-> 2]
    /\ arg[Main] = 2
    /\ maxLevel = "Debug"

\* ------------------------------------------------------------------ C12
\* the level names of the specification's formatting rule
SpecName(l) ==
    CASE l = "Error" -> "error"
      [] l = "Warn" -> "warn"
      [] l = "Info" -> "info"
      [] l = "Debug" -> "debug"
      [] l = "Trace" -> "trace"

IsVisible(piece) == ~piece.code

\* the text of a written line with its colour codes stripped
StripColor(line) ==
    LET shown == SelectSeq(line, IsVisible)
    IN  [i \in 1..Len(shown) |-> shown[i].text]

\* thread t's step is Logger::log running on the record it was handed
Emits(t) ==
    pc[t] = "dispatch" /\ pc'[t] # "dispatch" /\ CurrentLogger = "clogger"

\* C12: for every record handed to Logger::log, exactly one line is added
\* to standard error, and that line, colour codes stripped, reads
\* "<name>: <message>" with the name of the record's level and the record's
\* message.
C12_OneFormattedLinePerRecord ==
    [][\A t \in Threads :
          Emits(t) =>
              /\ Len(stderr') = Len(stderr) + 1
              /\ SubSeq(stderr', 1, Len(stderr)) = stderr
              /\ StripColor(stderr'[Len(stderr')]) =
                     <<SpecName(rec[t].level), ": ">> \o rec[t].args]_vars

\* ------------------------------------------------------------------ C13
\* thread t's step ends its init() call
InitEnds(t) ==
    op[t] = "init" /\ pc[t] \in {"ret_ok", "ret_err"} /\ pc'[t] # pc[t]

\* C13: an init() call made while a logger is already registered does not
\* return but panics; an init() call made while none is registered returns
\* normally and INSTANCE is then the registered logger.
C13_InitFatalOnFailure ==
    [][\A t \in Threads :
          InitEnds(t) =>
              IF regAtStart[t]
                THEN pc'[t] = "panicked"
                ELSE pc'[t] = "idle" /\ CurrentLogger' = "clogger"]_vars

C13_Witness ==
    /\ pc[Main] = "panicked"
    /\ op[Main] = "init"
    /\ okCount = 1
    /\ CurrentLogger = "clogger"

\* ------------------------------------------------------------------ C14
\* C14: Logger::enabled answers true for every record, and every record the
\* facade hands to Logger::log is written to standard error, beginning a new
\* line "<name>: ...", whatever quiet and verbosity hold when it is written,
\* also when a set_quiet(true) or a lower set_verbosity returned after the
\* facade's check.
C14_NoFilteringInLogger ==
    /\ [](\A r \in Records : LoggerEnabled(r))
    /\ [][\A t \in Threads :
             Emits(t) =>
                 /\ Len(stderr') > Len(stderr)
                 /\ SubSeq(stderr', 1, Len(stderr)) = stderr
                 /\ StripColor(stderr'[Len(stderr) + 1]) =
                        <<SpecName(rec[t].level), ": ", rec[t].args[1]>>]_vars

\* a record passed the facade's check, then set_quiet(true) returned, and
\* Logger::log is about to run on the record
C14_Witness ==
    \E t \in Threads :
        /\ pc[t] = "dispatch"
        /\ CurrentLogger = "clogger"
        /\ quietDone
        /\ QuietGet
        /\ maxLevel = "Off"
        /\ ENABLED LogDispatch(t)

\* ------------------------------------------------------------------ C15
\* thread t's step begins a set_verbosity or set_quiet call
SetterBegins(t) ==
    pc[t] = "idle" /\ pc'[t] # "idle"
        /\ op'[t] \in {"set_verbosity", "set_quiet"}

\* thread t's step is the Ok return of its try_init or init call
InitSucceeds(t) ==
    op[t] \in {"try_init", "init"} /\ pc[t] = "ret_ok" /\ pc'[t] = "idle"

\* C15: until a setter is called, quiet() is false and verbosity() is 0 (they
\* are so before any call, and no step other than the beginning of a setter
\* changes them); a try_init/init that succeeds with these values leaves
\* the threshold Warn and INSTANCE registered, so that Error and Warn
\* records are handed on and Info, Debug and Trace records are not.
C15_InitialStateAndThreshold ==
    /\ [](~Configured => (QuietGet = FALSE /\ VerbosityGet = 0))
    /\ [][(\A t \in Threads : ~SetterBegins(t)) =>
              (QuietGet' = QuietGet /\ VerbosityGet' = VerbosityGet)]_vars
    /\ [][\A t \in Threads :
             (InitSucceeds(t) /\ QuietGet = FALSE /\ VerbosityGet = 0) =>
                 /\ maxLevel' = "Warn"
                 /\ CurrentLogger' = "clogger"
                 /\ \A l \in Levels :
                        FacadeEnabled(l, maxLevel') <=>
                            l \in {"Error", "Warn"}]_vars

C15_Witness ==
    /\ okCount = 1
    /\ Quiescent
    /\ hist[Main] = [kind |-> "other", v |-> 0]
    /\ ~lastSv.set
    /\ QuietGet = FALSE
    /\ VerbosityGet = 0
    /\ maxLevel = "Warn"
    /\ CurrentLogger = "clogger"

\* ------------------------------------------------------------------ C16
\* thread t has passed update_max_level() in its try_init call
PastPublish(t) ==
    op[t] = "try_init"
        /\ pc[t] \in {"set_logger", "install", "spin", "ret_ok", "ret_err"}

\* thread t's step is set_logger failing or try_init returning its Err
FailingStep(t) ==
    op[t] = "try_init" /\ pc'[t] # pc[t]
        /\ \/ pc[t] \in {"set_logger", "spin"} /\ pc'[t] = "ret_err"
           \/ pc[t] = "ret_err"

\* C16: with no setter running during it, a try_init call has published the
\* mapping of the current (quiet, verbosity) from the moment it reaches
\* set_logger, and the threshold is still that mapping when the call returns
\* Err, also when the registered logger is another crate's; the failing
\* set_logger and the Err return leave the registered logger as it was.
C16_FailedTryInitPublishes ==
    /\ [](\A t \in Threads :
             PastPublish(t) =>
                 maxLevel = SpecThreshold(QuietGet, VerbosityGet))
    /\ [][\A t \in Threads :
             FailingStep(t) =>
                 /\ maxLevel' = SpecThreshold(QuietGet', VerbosityGet')
                 /\ logger' = logger
                 /\ logState' = logState]_vars

\* a try_init is about to return Err with another crate's logger
\* registered, having published Debug for verbosity 2
C16_Witness ==
    \E t \in Threads :
        /\ op[t] = "try_init"
        /\ pc[t] = "ret_err"
        /\ regAtStart[t]
        /\ PreRegistered
        /\ VerbosityGet = 2
        /\ QuietGet = FALSE
        /\ maxLevel = "Debug"

\* ------------------------------------------------------------------ C17
\* thread t's step belongs to a try_init or init call
InitStep(t) ==
    pc'[t] # pc[t]
        /\ \/ op[t] \in {"try_init", "init"}
           \/ pc[t] = "idle" /\ op'[t] \in {"try_init", "init"}

\* C17: whatever set_quiet/set_verbosity calls were made before, no step of
\* a try_init/init call changes quiet or verbosity, and when the call returns
\* Ok the published threshold is the mapping of these last written values
\* (set_verbosity(2); init() gives Debug).
C17_InitKeepsConfiguration ==
    /\ [][\A t \in Threads :
             InitStep(t) =>
                 (QuietGet' = QuietGet /\ VerbosityGet' = VerbosityGet)]_vars
    /\ [][\A t \in Threads :
             InitSucceeds(t) =>
                 maxLevel' = SpecThreshold(QuietGet', VerbosityGet')]_vars

\* the first init, made after set_verbosity(2), is returning Ok with Debug
C17_Witness ==
    /\ op[Main] = "init"
    /\ pc[Main] = "ret_ok"
    /\ okCount = 0
    /\ ~initDone
    /\ VerbosityGet = 2
    /\ QuietGet = FALSE
    /\ maxLevel = "Debug"
    /\ CurrentLogger = "clogger"

\* ------------------------------------------------------------------ C18
\* thread t's step belongs to a call of the setter o
SetterStep(t, o) ==
    pc'[t] # pc[t]
        /\ \/ op[t] = o
           \/ pc[t] = "idle" /\ op'[t] = o

\* thread t's step is the return of its call of the setter o
SetterReturns(t, o) == op[t] = o /\ pc[t] = "uml_publish" /\ pc'[t] = "idle"

\* C18: no step of set_quiet changes verbosity and no step of set_verbosity
\* changes quiet; so, calls not overlapping, a set_verbosity(n) returning
\* while quiet is set leaves the threshold Off with verbosity n stored, and a
\* set_quiet(false) returns with the threshold that the mapping gives for
\* the verbosity stored before it.
C18_FieldsIndependent ==
    /\ [][\A t \in Threads :
             SetterStep(t, "set_quiet") => VerbosityGet' = VerbosityGet]_vars
    /\ [][\A t \in Threads :
             SetterStep(t, "set_verbosity") => QuietGet' = QuietGet]_vars
    /\ [][\A t \in Threads :
             (SetterReturns(t, "set_verbosity") /\ QuietGet) =>
                 (maxLevel' = "Off" /\ VerbosityGet' = arg[t])]_vars
    /\ [][\A t \in Threads :
             (SetterReturns(t, "set_quiet") /\ arg[t] = FALSE) =>
                 /\ VerbosityGet' = VerbosityGet
                 /\ maxLevel' = SpecThreshold(FALSE, VerbosityGet)]_vars

\* set_quiet(false) is about to publish Debug for the verbosity 2 that was
\* stored while the threshold was Off
C18_Witness ==
    /\ op[Main] = "set_quiet"
    /\ arg[Main] = FALSE
    /\ pc[Main] = "uml_publish"
    /\ VerbosityGet = 2
    /\ lvl[Main] = "Debug"
    /\ maxLevel = "Off"

=============================================================================
